---------------------------- MODULE Spec2Model ----------------------------
(***************************************************************************)
(* A model of mcml_cli: the text normalizer, the similarity scorer, the    *)
(* candidate extractor, the record resolver, the query matcher and the     *)
(* export run (discover, fetch, extract, resolve, persist).                *)
(*                                                                         *)
(* Python strings are sequences of one-character strings.  Python's None   *)
(* is the distinguished value None.  Python floats are exact rationals     *)
(* [n, d] in lowest terms.                                                 *)
(***************************************************************************)
EXTENDS Integers, Sequences, FiniteSets, TLC

VARIABLES
    pc,         \* position of the process: which call is pending or finished
    args,       \* the arguments of the pending call
    ret,        \* what the call returned
    db,         \* the rows of the people table, in insertion order
    run,        \* the locals of the export run in progress or last finished
    persisted   \* history: what the last run that replaced the table handed over

vars == <<pc, args, ret, db, run, persisted>>

NoRet == [none |-> TRUE]

\* no export run has started
NoRun ==
    [number |-> 0, site |-> 0, discovery_failed |-> FALSE, discovered |-> <<>>,
     pages |-> <<>>, ix |-> 0, all_people |-> <<>>, people |-> <<>>,
     failed_url |-> <<>>]

NothingPersisted == [people |-> <<>>, now |-> 0, replaced |-> <<>>]

\* the table is empty and no export run takes place
NoExport ==
    /\ db = <<>>
    /\ run = NoRun
    /\ persisted = NothingPersisted

-----------------------------------------------------------------------------
(* Characters and Python's str methods.                                    *)

None == <<"<None>">>

AsciiLower ==
    {"a","b","c","d","e","f","g","h","i","j","k","l","m",
     "n","o","p","q","r","s","t","u","v","w","x","y","z"}

AsciiUpperSeq ==
    <<"A","B","C","D","E","F","G","H","I","J","K","L","M",
      "N","O","P","Q","R","S","T","U","V","W","X","Y","Z">>

AsciiLowerSeq ==
    <<"a","b","c","d","e","f","g","h","i","j","k","l","m",
      "n","o","p","q","r","s","t","u","v","w","x","y","z">>

AsciiUpper == {AsciiUpperSeq[i] : i \in 1..26}

Digits == {"0","1","2","3","4","5","6","7","8","9"}

\* str.isspace / the regex class \s
Whitespace == {" ", "\t", "\n"}

\* Letters outside ASCII (of the range U+00C0..U+00FF): each of these names
\* stands for one character, E-acute and e-acute.
LatinUpper == {"Eacute"}
LatinLower == {"eacute"}

\* str.lower on one character
Lower(c) ==
    IF c \in AsciiUpper
    THEN AsciiLowerSeq[CHOOSE i \in 1..26 : AsciiUpperSeq[i] = c]
    ELSE IF c = "Eacute" THEN "eacute"
    ELSE c

\* str.lower
StrLower(s) == [i \in 1..Len(s) |-> Lower(s[i])]

\* (s or "")
OrEmpty(s) == IF s = None THEN <<>> ELSE s

\* truthiness of an optional string
Truthy(s) == s # None /\ s # <<>>

RECURSIVE LStrip(_)
LStrip(s) ==
    IF s # <<>> /\ Head(s) \in Whitespace THEN LStrip(Tail(s)) ELSE s

RECURSIVE RStrip(_)
RStrip(s) ==
    IF s # <<>> /\ s[Len(s)] \in Whitespace
    THEN RStrip(SubSeq(s, 1, Len(s) - 1))
    ELSE s

\* str.strip
Strip(s) == RStrip(LStrip(s))

\* re.sub(r"[^a-z0-9\s]", " ", s)
SubNonAlnum(s) ==
    [i \in 1..Len(s) |->
        IF s[i] \in AsciiLower \cup Digits \cup Whitespace THEN s[i] ELSE " "]

\* re.sub(r"\s+", " ", s)
RECURSIVE SubWsRuns(_)
SubWsRuns(s) ==
    IF s = <<>> THEN <<>>
    ELSE IF Head(s) \in Whitespace
         THEN <<" ">> \o SubWsRuns(LStrip(s))
         ELSE <<Head(s)>> \o SubWsRuns(Tail(s))

\* str.startswith
StartsWith(s, p) == Len(s) >= Len(p) /\ SubSeq(s, 1, Len(p)) = p

\* str.split(): the maximal runs of non-whitespace characters
RECURSIVE SplitWs(_, _)
SplitWs(s, cur) ==
    IF s = <<>> THEN (IF cur = <<>> THEN <<>> ELSE <<cur>>)
    ELSE IF Head(s) \in Whitespace
         THEN (IF cur = <<>> THEN <<>> ELSE <<cur>>) \o SplitWs(Tail(s), <<>>)
         ELSE SplitWs(Tail(s), Append(cur, Head(s)))

Split(s) == SplitWs(s, <<>>)

\* " ".join(parts)
RECURSIVE JoinSp(_)
JoinSp(parts) ==
    IF parts = <<>> THEN <<>>
    ELSE IF Len(parts) = 1 THEN parts[1]
    ELSE parts[1] \o <<" ">> \o JoinSp(Tail(parts))

-----------------------------------------------------------------------------
(* The text normalizer: scrape._norm and match._norm.                      *)

norm_reordered(s) ==
    SubNonAlnum(Strip(SubWsRuns(StrLower(Strip(OrEmpty(s))))))

scrape_norm(s) ==
    Strip(SubWsRuns(SubNonAlnum(StrLower(Strip(OrEmpty(s))))))

match_norm(s) ==
    Strip(SubWsRuns(SubNonAlnum(StrLower(Strip(OrEmpty(s))))))

-----------------------------------------------------------------------------
(* Floats as exact rationals [n |-> numerator, d |-> denominator > 0] in     *)
(* lowest terms, so that equal numbers are equal values.                     *)

RECURSIVE Gcd(_, _)
Gcd(x, y) == IF y = 0 THEN x ELSE Gcd(y, x % y)

Frac(n, d) ==
    LET g == Gcd(IF n < 0 THEN -n ELSE n, d)
    IN  IF n = 0 THEN [n |-> 0, d |-> 1] ELSE [n |-> n \div g, d |-> d \div g]

Zero == Frac(0, 1)
One == Frac(1, 1)

FAdd(x, y) == Frac(x.n * y.d + y.n * x.d, x.d * y.d)
FMul(x, y) == Frac(x.n * y.n, x.d * y.d)
\* x / y for y > 0
FDiv(x, y) == Frac(x.n * y.d, x.d * y.n)
FLe(x, y) == x.n * y.d <= y.n * x.d
FLt(x, y) == x.n * y.d < y.n * x.d
FMax(x, y) == IF FLt(x, y) THEN y ELSE x
FMin(x, y) == IF FLt(y, x) THEN y ELSE x

-----------------------------------------------------------------------------
(* difflib.SequenceMatcher(None, a, b).ratio(), no junk, strings shorter    *)
(* than the 200 characters at which the popularity heuristic starts.        *)
(* Indices are Python's (from 0); a[i] is a[i + 1] here.                    *)

\* j2len[j]: the length of the common run that ends at a[i] and b[j] and
\* lies within a[alo:] and b[blo:]
RECURSIVE BackRun(_, _, _, _, _, _)
BackRun(a, b, i, j, alo, blo) ==
    IF i >= alo /\ j >= blo /\ a[i + 1] = b[j + 1]
    THEN 1 + BackRun(a, b, i - 1, j - 1, alo, blo)
    ELSE 0

\* find_longest_match: the loops visit i in range(alo, ahi) and, for each i,
\* the positions j of a[i] in b in increasing order, and a strictly longer
\* run replaces the best one: the result is the first longest run in that
\* order, as (start in a, start in b, size), or (alo, blo, 0)
find_longest_match(a, b, alo, ahi, blo, bhi) ==
    LET I == alo..(ahi - 1)
        J == blo..(bhi - 1)
        k[i \in I, j \in J] == BackRun(a, b, i, j, alo, blo)
        sizes == {k[i, j] : i \in I, j \in J} \cup {0}
        bestsize == CHOOSE n \in sizes : \A m \in sizes : m <= n
        i_end == CHOOSE i \in I :
                     /\ \E j \in J : k[i, j] = bestsize
                     /\ \A i2 \in I : (\E j \in J : k[i2, j] = bestsize) => i <= i2
        j_end == CHOOSE j \in J :
                     /\ k[i_end, j] = bestsize
                     /\ \A j2 \in J : k[i_end, j2] = bestsize => j <= j2
    IN  IF bestsize = 0 THEN <<alo, blo, 0>>
        ELSE <<i_end - bestsize + 1, j_end - bestsize + 1, bestsize>>

\* get_matching_blocks: the total size of the blocks found in a[alo:ahi] and
\* b[blo:bhi], the longest match first, then the pieces left and right of it
RECURSIVE MatchedSize(_, _, _, _, _, _)
MatchedSize(a, b, alo, ahi, blo, bhi) ==
    LET x == find_longest_match(a, b, alo, ahi, blo, bhi)
        i == x[1]
        j == x[2]
        k == x[3]
    IN  IF k = 0 THEN 0
        ELSE k
             + (IF alo < i /\ blo < j
                THEN MatchedSize(a, b, alo, i, blo, j) ELSE 0)
             + (IF i + k < ahi /\ j + k < bhi
                THEN MatchedSize(a, b, i + k, ahi, j + k, bhi) ELSE 0)

\* ratio(): 2.0 * matches / (len(a) + len(b)), and 1.0 for two empty strings
ratio(a, b) ==
    IF Len(a) + Len(b) = 0 THEN One
    ELSE Frac(2 * MatchedSize(a, b, 0, Len(a), 0, Len(b)), Len(a) + Len(b))

-----------------------------------------------------------------------------
(* match.similarity                                                         *)

similarity_raw_b(a, b) ==
    LET a_n == match_norm(a)
    IN  IF a_n = <<>> \/ OrEmpty(b) = <<>> THEN Zero ELSE ratio(a_n, OrEmpty(b))

similarity(a, b) ==
    LET a_n == match_norm(a)
        b_n == match_norm(b)
    IN  IF a_n = <<>> \/ b_n = <<>> THEN Zero ELSE ratio(a_n, b_n)

-----------------------------------------------------------------------------
(* match.find_best_matches                                                  *)

\* query = (query or "").strip()
stripped_query(query) == Strip(OrEmpty(query))

\* query_tokens = _norm(query).split()
query_tokens(query) == Split(match_norm(stripped_query(query)))

\* first_query = first or (query_tokens[0] if query_tokens else "")
first_query(query, first) ==
    IF Truthy(first) THEN first
    ELSE IF query_tokens(query) # <<>> THEN query_tokens(query)[1]
    ELSE <<>>

\* last_query: last, else the last token, else the only token, else ""
last_query(query, last) ==
    LET toks == query_tokens(query)
    IN  IF Truthy(last) THEN last
        ELSE IF Len(toks) >= 2 THEN toks[Len(toks)]
        ELSE IF toks # <<>> THEN toks[1]
        ELSE <<>>

\* if not any([query, first_query, last_query]): return []
nothing_to_match(query, first, last) ==
    /\ stripped_query(query) = <<>>
    /\ first_query(query, first) = <<>>
    /\ last_query(query, last) = <<>>

FIRST_WEIGHT == Frac(2, 5)
LAST_WEIGHT == Frac(3, 5)
LAST_BOOST == Frac(3, 20)
FIRST_BOOST == Frac(1, 20)

\* combined_score = weighted / weight_total if weight_total else 0.0
combined_score(fq, lq, first_score, last_score) ==
    LET weighted == FAdd(IF fq # <<>> THEN FMul(first_score, FIRST_WEIGHT) ELSE Zero,
                         IF lq # <<>> THEN FMul(last_score, LAST_WEIGHT) ELSE Zero)
        weight_total == FAdd(IF fq # <<>> THEN FIRST_WEIGHT ELSE Zero,
                             IF lq # <<>> THEN LAST_WEIGHT ELSE Zero)
    IN  IF weight_total # Zero THEN FDiv(weighted, weight_total) ELSE Zero

boost_any_equal(fq, lq, r) ==
    LET n_last == match_norm(OrEmpty(r.last_name))
        n_first == match_norm(OrEmpty(r.first_name))
    IN  FAdd(IF lq # <<>> /\ match_norm(lq) = n_last THEN LAST_BOOST ELSE Zero,
             IF fq # <<>> /\ match_norm(fq) = n_first THEN FIRST_BOOST ELSE Zero)

\* boost: 0.15 for the last name and 0.05 for the first name
boost(fq, lq, r) ==
    LET n_last == match_norm(OrEmpty(r.last_name))
        n_first == match_norm(OrEmpty(r.first_name))
    IN  FAdd(IF lq # <<>> /\ n_last # <<>> /\ match_norm(lq) = n_last
             THEN LAST_BOOST ELSE Zero,
             IF fq # <<>> /\ n_first # <<>> /\ match_norm(fq) = n_first
             THEN FIRST_BOOST ELSE Zero)

\* the score of one row, lines 62 to 87
row_score(query, first, last, r) ==
    LET q == stripped_query(query)
        fq == first_query(query, first)
        lq == last_query(query, last)
        full_name_score ==
            IF q # <<>> THEN similarity(q, OrEmpty(r.full_name)) ELSE Zero
        first_score ==
            IF fq # <<>> THEN similarity(fq, OrEmpty(r.first_name)) ELSE Zero
        last_score ==
            IF lq # <<>> THEN similarity(lq, OrEmpty(r.last_name)) ELSE Zero
        best == FMax(FMax(full_name_score, first_score),
                     FMax(last_score,
                          combined_score(fq, lq, first_score, last_score)))
    IN  FMin(FAdd(best, boost(fq, lq, r)), One)

\* Match(score=score, full_name=name, role=..., ...)
Match(score, r) ==
    [score |-> score,
     full_name |-> OrEmpty(r.full_name),
     role |-> OrEmpty(r.role),
     note |-> OrEmpty(r.note),
     mcml_url |-> OrEmpty(r.mcml_url),
     source_page |-> OrEmpty(r.source_page)]

\* if score >= threshold
passes(score, threshold) == FLe(threshold, score)

\* the loop over rows: a Match is appended for each row that passes
RECURSIVE scan_rows(_, _, _, _, _)
scan_rows(query, first, last, rows, threshold) ==
    IF rows = <<>> THEN <<>>
    ELSE LET score == row_score(query, first, last, Head(rows))
         IN  (IF passes(score, threshold) THEN <<Match(score, Head(rows))>> ELSE <<>>)
             \o scan_rows(query, first, last, Tail(rows), threshold)

\* insertion of m behind every element whose score is not lower
RECURSIVE insert_desc(_, _)
insert_desc(sorted, m) ==
    IF sorted = <<>> THEN <<m>>
    ELSE IF FLt(Head(sorted).score, m.score) THEN <<m>> \o sorted
    ELSE <<Head(sorted)>> \o insert_desc(Tail(sorted), m)

RECURSIVE insert_asc(_, _)
insert_asc(sorted, m) ==
    IF sorted = <<>> THEN <<m>>
    ELSE IF FLt(m.score, Head(sorted).score) THEN <<m>> \o sorted
    ELSE <<Head(sorted)>> \o insert_asc(Tail(sorted), m)

RECURSIVE sort_asc(_, _)
sort_asc(matches, sorted) ==
    IF matches = <<>> THEN sorted
    ELSE sort_asc(Tail(matches), insert_asc(sorted, Head(matches)))

Reverse(s) == [i \in 1..Len(s) |-> s[Len(s) + 1 - i]]

sort_ascending_reversed(matches) == Reverse(sort_asc(matches, <<>>))

RECURSIVE sort_desc(_, _)
sort_desc(matches, sorted) ==
    IF matches = <<>> THEN sorted
    ELSE sort_desc(Tail(matches), insert_desc(sorted, Head(matches)))

\* matches.sort(key=lambda m: m.score, reverse=True): list.sort is stable,
\* also with reverse=True
sort_by_score(matches) == sort_desc(matches, <<>>)

\* matches[:limit]
slice_to(matches, limit) ==
    IF limit >= 0
    THEN SubSeq(matches, 1, IF limit < Len(matches) THEN limit ELSE Len(matches))
    ELSE SubSeq(matches, 1, IF Len(matches) + limit > 0 THEN Len(matches) + limit ELSE 0)

find_best_matches_no_guard(query, rows, first, last, limit, threshold) ==
    slice_to(sort_by_score(scan_rows(query, first, last, rows, threshold)), limit)

find_best_matches(query, rows, first, last, limit, threshold) ==
    IF nothing_to_match(query, first, last) THEN <<>>
    ELSE slice_to(sort_by_score(scan_rows(query, first, last, rows, threshold)),
                  limit)

\* the scores the loop assigns, one per row; none when the call returns early
scores_assigned(query, rows, first, last) ==
    IF nothing_to_match(query, first, last) THEN <<>>
    ELSE [i \in 1..Len(rows) |-> row_score(query, first, last, rows[i])]

-----------------------------------------------------------------------------
(* Bounded sets of strings.                                                *)

MaxRawLen == 3

RECURSIVE StringsUpTo(_, _)
StringsUpTo(chars, n) ==
    IF n = 0 THEN {<<>>}
    ELSE LET shorter == StringsUpTo(chars, n - 1)
         IN  shorter \cup {Append(s, c) : s \in shorter, c \in chars}

\* what a caller may hand to a normalizer
RawChars == {"a", "A", "1", " ", "-", "Eacute"}
RawStrings == StringsUpTo(RawChars, MaxRawLen) \cup {None}

-----------------------------------------------------------------------------
(* Normalizing a string, and normalizing the result again.                 *)

NormInit ==
    /\ pc = "call"
    /\ args \in [s : RawStrings]
    /\ ret = NoRet
    /\ NoExport

CallScrapeNorm ==
    /\ pc = "call"
    /\ pc' = "scrape_norm"
    /\ ret' = [once |-> scrape_norm(args.s),
               twice |-> scrape_norm(scrape_norm(args.s))]
    /\ UNCHANGED <<args, db, run, persisted>>

CallMatchNorm ==
    /\ pc = "call"
    /\ pc' = "match_norm"
    /\ ret' = [once |-> match_norm(args.s),
               twice |-> match_norm(match_norm(args.s))]
    /\ UNCHANGED <<args, db, run, persisted>>

NormNext == CallScrapeNorm \/ CallMatchNorm

SpecNorm == NormInit /\ [][NormNext]_vars

\* C7: normalization is idempotent, for the resolver's normalizer and for the
\* matcher's: normalizing a normalized string (also of a missing or empty
\* input) returns it unchanged.
C7_NormIdempotent ==
    pc \in {"scrape_norm", "match_norm"} => ret.twice = ret.once

\* a string whose normalization changed it (case, punctuation and trailing
\* whitespace) has been normalized by both normalizers' code
C7_Witness ==
    /\ pc = "match_norm"
    /\ args.s = <<"A", "-", " ">>
    /\ ret.once = <<"a">>

-----------------------------------------------------------------------------
(* Scoring a pair of strings in both argument orders.                      *)

MaxSimLen == 3

SimChars == {"a", "B", " "}
SimStrings == StringsUpTo(SimChars, MaxSimLen) \cup {None}

SimInit ==
    /\ pc = "call"
    /\ args \in [a : SimStrings, b : SimStrings]
    /\ ret = NoRet
    /\ NoExport

CallSimilarity ==
    /\ pc = "call"
    /\ pc' = "similarity"
    /\ ret' = [ab |-> similarity(args.a, args.b),
               ba |-> similarity(args.b, args.a)]
    /\ UNCHANGED <<args, db, run, persisted>>

SimNext == CallSimilarity

SpecSim == SimInit /\ [][SimNext]_vars

-----------------------------------------------------------------------------
(* scrape: the site, names and the richness of a record.                   *)

BASE == <<"h", "t", "t", "p", "s", ":", "/", "/", "m", "c", "m", "l", ".", "a", "i">>
TEAM_ROOT == BASE \o <<"/", "t", "e", "a", "m", "/">>

\* _clean_ws: re.sub(r"\s+", " ", (text or "").strip())
_clean_ws(text) == SubWsRuns(Strip(OrEmpty(text)))

\* _split_name: the first token, and the remaining tokens joined by a space
_split_name(full_name) ==
    LET parts == Split(_clean_ws(full_name))
    IN  IF Len(parts) = 1 THEN <<parts[1], <<>>>>
        ELSE <<parts[1], JoinSp(Tail(parts))>>

\* db.Person(...) as scrape_all builds it from a candidate c found on page
Person(c, page) ==
    [full_name |-> c.full_name,
     first_name |-> _split_name(c.full_name)[1],
     last_name |-> _split_name(c.full_name)[2],
     role |-> c.role,
     note |-> c.note,
     mcml_url |-> c.mcml_url,
     source_page |-> page]

person_score_case_sensitive(p) ==
    (IF p.mcml_url # <<>>
     THEN 1 + (IF StartsWith(p.mcml_url, BASE) THEN 1 ELSE 0) ELSE 0)
    + (IF p.note # <<>> THEN 1 ELSE 0)
    + (IF p.role # <<>> /\ p.role # <<"M", "e", "m", "b", "e", "r">> THEN 1 ELSE 0)

_person_score(p) ==
    (IF p.mcml_url # <<>>
     THEN 1 + (IF StartsWith(p.mcml_url, BASE) THEN 1 ELSE 0) ELSE 0)
    + (IF p.note # <<>> THEN 1 ELSE 0)
    + (IF p.role # <<>> /\ StrLower(p.role) # <<"m", "e", "m", "b", "e", "r">> THEN 1 ELSE 0)

-----------------------------------------------------------------------------
(* scrape._extract_candidates_from_page.  A page is the sequence of its     *)
(* elements in document order, each [name, text, href] with its own text;   *)
(* every element has a parent (the container is never missing).             *)

TITLE_TOKENS ==
    { <<"P", "r", "o", "f", ".">>,
      <<"P", "r", "o", "f">>,
      <<"D", "r", ".">>,
      <<"D", "r">>,
      <<"J", "u", "n", "i", "o", "r">>,
      <<"R", "e", "p", "r", "e", "s", "e", "n", "t", "a", "t", "i", "v", "e">> }

\* the section headings _looks_like_name refuses
BadNames ==
    { <<"h", "o", "m", "e">>,
      <<"t", "e", "a", "m">>,
      <<"b", "a", "c", "k", " ", "t", "o", " ", "t", "o", "p">>,
      <<"b", "o", "a", "r", "d", " ", "o", "f", " ", "d", "i", "r", "e", "c", "t", "o", "r", "s">>,
      <<"m", "a", "n", "a", "g", "e", "m", "e", "n", "t", " ", "t", "e", "a", "m">>,
      <<"r", "e", "s", "e", "a", "r", "c", "h", " ", "g", "r", "o", "u", "p", "s">>,
      <<"j", "u", "n", "i", "o", "r", " ", "r", "e", "s", "e", "a", "r", "c", "h", " ", "g", "r", "o", "u", "p", "s">>,
      <<"j", "u", "n", "i", "o", "r", " ", "m", "e", "m", "b", "e", "r", "s">>,
      <<"p", "o", "s", "t", "d", "o", "c", "s">>,
      <<"p", "h", "d", " ", "s", "t", "u", "d", "e", "n", "t", "s">>,
      <<"s", "t", "u", "d", "e", "n", "t", "s">> }

Letters == AsciiLower \cup AsciiUpper \cup LatinLower \cup LatinUpper

\* re.findall(r"[A-Za-z...][A-Za-z...'.-]*", s): the number of tokens; in_tok
\* says that the character before s belongs to a token
RECURSIVE CountTokens(_, _)
CountTokens(s, in_tok) ==
    IF s = <<>> THEN 0
    ELSE IF in_tok /\ Head(s) \in Letters \cup {"'", ".", "-"}
         THEN CountTokens(Tail(s), TRUE)
    ELSE IF Head(s) \in Letters THEN 1 + CountTokens(Tail(s), TRUE)
    ELSE CountTokens(Tail(s), FALSE)

_looks_like_name(text) ==
    LET s == _clean_ws(text)
        tokens == CountTokens(s, FALSE)
    IN  /\ Len(s) >= 3
        /\ StrLower(s) \notin BadNames
        /\ tokens >= 2
        /\ tokens <= 8

\* sub in s
Contains(s, sub) ==
    \E i \in 1..(Len(s) - Len(sub) + 1) : SubSeq(s, i, i + Len(sub) - 1) = sub

_abs_url(url) ==
    IF url = <<>> THEN <<>>
    ELSE IF StartsWith(url, <<"h", "t", "t", "p", ":", "/", "/">>) \/ StartsWith(url, <<"h", "t", "t", "p", "s", ":", "/", "/">>) THEN url
    ELSE IF StartsWith(url, <<"/">>) THEN BASE \o url
    ELSE BASE \o <<"/">> \o url

\* the tags soup.find_all visits, and those a name may appear in
ScanTags ==
    {"h1", "h2", "h3", "h4", "h5", "p", "a", "strong", "li", "span", "div", "td"}

\* el.find_all_next([...], limit=30)
WindowTags == {"p", "a", "h3", "h4", "h5", "li", "span", "div"}
WINDOW_LIMIT == 30
\* el.find_all_next("a", limit=25)
GROUP_LINK_LIMIT == 25

StopTags == {"h1", "h2", "h3", "h4", "h5", "strong"}
TextTags == {"p", "li", "span", "div"}

\* find_all_next(tags, limit): the places after place i of the first `limit`
\* elements with one of the tags
find_all_next(html, i, tags, limit) ==
    LET Wanted(k) == html[k].name \in tags
        all == SelectSeq([k \in 1..(Len(html) - i) |-> i + k], Wanted)
    IN  SubSeq(all, 1, IF Len(all) < limit THEN Len(all) ELSE limit)

\* "Stop when the next person starts": the test that ends the window
starts_next_person(sib) ==
    /\ sib.name \in StopTags
    /\ Strip(sib.text) # <<>>
    /\ _looks_like_name(_clean_ws(sib.text))

\* the loop over the window: block_texts and block_links up to the break
RECURSIVE collect_block(_, _, _)
collect_block(html, window, block) ==
    IF window = <<>> THEN block
    ELSE LET sib == html[Head(window)]
             t == _clean_ws(sib.text)
         IN  IF starts_next_person(sib) THEN block
             ELSE collect_block(html, Tail(window),
                     [texts |-> IF sib.name \in TextTags /\ t # <<>>
                                THEN Append(block.texts, t) ELSE block.texts,
                      links |-> IF sib.name = "a" /\ sib.href # <<>>
                                THEN Append(block.links, _abs_url(sib.href))
                                ELSE block.links])

RoleWords ==
    { <<"m", "a", "n", "a", "g", "e", "r">>, <<"d", "i", "r", "e", "c", "t", "o", "r">>, <<"l", "e", "a", "d", "e", "r">>, <<"f", "e", "l", "l", "o", "w">>, <<"c", "o", "o", "r", "d", "i", "n", "a", "t", "o", "r">>, <<"o", "f", "f", "i", "c", "i", "a", "l">> }

ShortRoleWords == { <<"c", "o", "o", "r", "d", "i", "n", "a", "t", "o", "r">>, <<"f", "e", "l", "l", "o", "w">>, <<"r", "e", "p", "r", "e", "s", "e", "n", "t", "a", "t", "i", "v", "e">> }

\* whether line t becomes the role while the role is still empty
is_role_line(t) ==
    /\ Len(t) <= 180
    /\ t \notin TITLE_TOKENS
    /\ \/ \E w \in RoleWords : Contains(StrLower(t), w)
       \/ /\ Len(Split(t)) <= 6
          /\ \E w \in ShortRoleWords : Contains(StrLower(t), w)

\* the role taken from the lines: the first role line, or ""
RECURSIVE role_from_texts(_)
role_from_texts(block_texts) ==
    IF block_texts = <<>> THEN <<>>
    ELSE IF is_role_line(Head(block_texts)) THEN Head(block_texts)
    ELSE role_from_texts(Tail(block_texts))

\* the role: from the lines, else the section name, else "Member"
decide_role(block_texts, current_section) ==
    IF role_from_texts(block_texts) # <<>> THEN role_from_texts(block_texts)
    ELSE IF current_section # <<>> /\ Len(current_section) <= 30
         THEN current_section
    ELSE <<"M", "e", "m", "b", "e", "r">>

\* the first internal link, else the first external link, else ""
link_from_block(block_links) ==
    LET internal == SelectSeq(block_links, LAMBDA u : StartsWith(u, BASE))
        external == SelectSeq(block_links, LAMBDA u : ~StartsWith(u, BASE))
    IN  IF internal # <<>> THEN internal[1]
        ELSE IF external # <<>> THEN external[1]
        ELSE <<>>

\* str.replace(arrow, "")
RemoveArrow(s) == SelectSeq(s, LAMBDA c : c # "arrow")

is_group_link(a) ==
    LET txt == _clean_ws(a.text)
    IN  Contains(txt, <<"arrow">>) \/ StartsWith(txt, <<"G", "r", "o", "u", "p">>)

\* the place of the first group link among the links after the name, or 0
RECURSIVE first_group_link(_, _)
first_group_link(html, links) ==
    IF links = <<>> THEN 0
    ELSE IF is_group_link(html[Head(links)]) THEN Head(links)
    ELSE first_group_link(html, Tail(links))

\* for a in el.find_all_next("a", limit=25): ... break
group_link(html, i) ==
    first_group_link(html, find_all_next(html, i, {"a"}, GROUP_LINK_LIMIT))

\* the candidate appended for the name element at place i
candidate_at(html, i, current_section) ==
    LET block == collect_block(html,
                     find_all_next(html, i, WindowTags, WINDOW_LIMIT),
                     [texts |-> <<>>, links |-> <<>>])
        g == group_link(html, i)
        group_text == IF g = 0 THEN <<>>
                      ELSE Strip(RemoveArrow(_clean_ws(html[g].text)))
    IN  [full_name |-> _clean_ws(html[i].text),
         role |-> decide_role(block.texts, current_section),
         note |-> group_text,
         mcml_url |-> IF g # 0 /\ html[g].href # <<>>
                      THEN _abs_url(html[g].href)
                      ELSE link_from_block(block.links)]

\* the loop over the elements from place i on: the candidates found, each
\* with the place of its name element
RECURSIVE scan_elements(_, _, _)
scan_elements(html, i, current_section) ==
    IF i > Len(html) THEN <<>>
    ELSE LET el == html[i]
             text == _clean_ws(el.text)
         IN  IF el.name \notin ScanTags
             THEN scan_elements(html, i + 1, current_section)
             ELSE IF el.name = "h2" /\ text # <<>>
             THEN scan_elements(html, i + 1, text)
             ELSE IF _looks_like_name(text)
             THEN <<[at |-> i, cand |-> candidate_at(html, i, current_section)]>>
                  \o scan_elements(html, i + 1, current_section)
             ELSE scan_elements(html, i + 1, current_section)

candidate_key(c) ==
    <<StrLower(c.full_name), StrLower(OrEmpty(c.mcml_url)), StrLower(c.role)>>

\* "De-duplicate by (name, mcml_url, role)": the first of each key is kept
RECURSIVE dedupe_candidates(_, _)
dedupe_candidates(candidates, seen) ==
    IF candidates = <<>> THEN <<>>
    ELSE IF candidate_key(Head(candidates)) \in seen
         THEN dedupe_candidates(Tail(candidates), seen)
    ELSE <<Head(candidates)>>
         \o dedupe_candidates(Tail(candidates),
                              seen \cup {candidate_key(Head(candidates))})

found_candidates(html) == scan_elements(html, 1, <<>>)

_extract_candidates_from_page(html) ==
    dedupe_candidates([k \in 1..Len(found_candidates(html)) |->
                          found_candidates(html)[k].cand], {})

-----------------------------------------------------------------------------
(* scrape_all: the two folds over all_people.  A dict is the sequence of    *)
(* its items [key, val] in insertion order; assigning to a key that is      *)
(* present keeps the key's place.                                           *)

DictIndex(d, k) ==
    IF \E i \in 1..Len(d) : d[i].key = k
    THEN CHOOSE i \in 1..Len(d) : d[i].key = k
    ELSE 0

DictPut(d, k, v) ==
    IF DictIndex(d, k) = 0
    THEN Append(d, [key |-> k, val |-> v])
    ELSE [d EXCEPT ![DictIndex(d, k)].val = v]

DictValues(d) == [i \in 1..Len(d) |-> d[i].val]

\* key = (p.full_name.lower(), (p.mcml_url or "").lower(), p.role.lower())
exact_key(p) ==
    <<StrLower(p.full_name), StrLower(OrEmpty(p.mcml_url)), StrLower(p.role)>>

\* the exact fold keeping the first record of a key in place of the last
RECURSIVE fold_exact_first_seen(_, _)
fold_exact_first_seen(people, by_exact) ==
    IF people = <<>> THEN by_exact
    ELSE fold_exact_first_seen(Tail(people),
             IF DictIndex(by_exact, exact_key(Head(people))) # 0
             THEN by_exact
             ELSE DictPut(by_exact, exact_key(Head(people)), Head(people)))

\* for p in all_people: by_exact[key] = p
RECURSIVE FoldExact(_, _)
FoldExact(people, by_exact) ==
    IF people = <<>> THEN by_exact
    ELSE FoldExact(Tail(people),
                   DictPut(by_exact, exact_key(Head(people)), Head(people)))

name_key_lower(p) == StrLower(p.full_name)

\* name_key = _norm(p.full_name)
name_key(p) == scrape_norm(p.full_name)

\* for p in by_exact.values(): keep p under its name unless the name already
\* holds a record that scores at least as high
RECURSIVE FoldName(_, _)
FoldName(people, by_name) ==
    IF people = <<>> THEN by_name
    ELSE LET p == Head(people)
             ix == DictIndex(by_name, name_key(p))
         IN  FoldName(Tail(people),
                 IF ix = 0 THEN DictPut(by_name, name_key(p), p)
                 ELSE IF _person_score(p) > _person_score(by_name[ix].val)
                      THEN DictPut(by_name, name_key(p), p)
                      ELSE by_name)

by_exact_of(all_people) == FoldExact(all_people, <<>>)

\* what scrape_all returns for the candidates gathered from the pages
Resolve(all_people) ==
    DictValues(FoldName(DictValues(by_exact_of(all_people)), <<>>))

-----------------------------------------------------------------------------
(* Resolving a list of raw candidates.                                     *)

MaxPeople == 3

Cand(n, r, t, u) == [full_name |-> n, role |-> r, note |-> t, mcml_url |-> u]

InternalUrl == BASE \o <<"/", "g">>
ExternalUrl == <<"h", "t", "t", "p", ":", "/", "/", "x", ".", "o", "r", "g">>

\* candidates as the extractor emits them: the name and role are not empty
Candidates ==
    { Cand(<<"A", "n", "a", " ", "L", "i">>, <<"D", "i", "r", "e", "c", "t", "o", "r">>, <<"G">>, InternalUrl),
      Cand(<<"A", "n", "a", " ", "L", "i">>, <<"M", "e", "m", "b", "e", "r">>, <<>>, <<>>),
      Cand(<<"a", "n", "a", " ", "l", "i">>, <<"m", "e", "m", "b", "e", "r">>, <<"G">>, <<>>),
      Cand(<<"A", "n", "a", "-", "L", "i">>, <<"M", "e", "m", "b", "e", "r">>, <<>>, ExternalUrl),
      Cand(<<"A", "n", "a", " ", "L", "i">>, <<"D", "i", "r", "e", "c", "t", "o", "r">>, <<>>, <<>>),
      Cand(<<"A", "n", "a", " ", "L", "i">>, <<"D", "i", "r", "e", "c", "t", "o", "r">>, <<"G">>, <<"H", "T", "T", "P", "S", ":", "/", "/", "M", "C", "M", "L", ".", "A", "I", "/", "g">>),
      Cand(<<"B", "o", " ", "X", "u">>, <<"M", "e", "m", "b", "e", "r">>, <<>>, <<>>),
      Cand(<<"B", "o", " ", "X", "u">>, <<"m", "e", "m", "b", "e", "r">>, <<>>, InternalUrl),
      Cand(<<"A", "n", "a", "-", "L", "i">>, <<"M", "e", "m", "b", "e", "r">>, <<>>, <<>>) }

PeopleLists ==
    UNION { [1..n -> {Person(c, TEAM_ROOT) : c \in Candidates}] : n \in 0..MaxPeople }

ResolveInit ==
    /\ pc = "call"
    /\ args \in [all_people : PeopleLists]
    /\ ret = NoRet
    /\ NoExport

CallResolve ==
    /\ pc = "call"
    /\ pc' = "resolved"
    /\ ret' = [by_exact |-> DictValues(by_exact_of(args.all_people)),
               people |-> Resolve(args.all_people)]
    /\ UNCHANGED <<args, db, run, persisted>>

ResolveNext == CallResolve

SpecResolve == ResolveInit /\ [][ResolveNext]_vars

\* C1: the records the resolver returns hold at most one record per
\* normalized-name key: no two of them have the same _norm(full_name).
C1_OnePerName ==
    pc = "resolved" =>
        \A i, j \in 1..Len(ret.people) :
            scrape_norm(ret.people[i].full_name) = scrape_norm(ret.people[j].full_name)
                => i = j

\* candidates whose names differ as written and agree once normalized were
\* resolved, with another person's, to one record each
C1_Witness ==
    /\ pc = "resolved"
    /\ Len(args.all_people) = 3
    /\ args.all_people[1].full_name = <<"A", "n", "a", " ", "L", "i">>
    /\ args.all_people[2].full_name = <<"A", "n", "a", "-", "L", "i">>
    /\ args.all_people[3].full_name = <<"B", "o", " ", "X", "u">>
    /\ Len(ret.people) = 2

\* the richness score as the claim states it
C2_Richness(p) ==
    (IF p.mcml_url # <<>> THEN 1 ELSE 0)
    + (IF p.mcml_url # <<>> /\ StartsWith(p.mcml_url, BASE) THEN 1 ELSE 0)
    + (IF p.note # <<>> THEN 1 ELSE 0)
    + (IF p.role # <<>> /\ StrLower(p.role) # StrLower(<<"M", "e", "m", "b", "e", "r">>) THEN 1 ELSE 0)

C2_Rich(p) ==
    /\ StartsWith(p.mcml_url, BASE)
    /\ p.note # <<>>
    /\ StrLower(p.role) # <<"m", "e", "m", "b", "e", "r">>

C2_Bare(p) == p.mcml_url = <<>> /\ p.note = <<>> /\ StrLower(p.role) = <<"m", "e", "m", "b", "e", "r">>

\* C2: in the identity fold (over the records that survive the exact fold, in
\* that fold's order), the record kept for a normalized full name is the one
\* with the highest richness score, and the earliest of those that share the
\* highest score; of a rich and a bare candidate of one name the rich one is
\* kept, in either input order.
C2_RichestEarliestKept ==
    pc = "resolved" =>
        LET surv == ret.by_exact
            same(i, r) == scrape_norm(surv[i].full_name) = scrape_norm(r.full_name)
        IN  /\ \A i \in 1..Len(surv) :
                   \E k \in 1..Len(ret.people) : same(i, ret.people[k])
            /\ \A k \in 1..Len(ret.people) :
                   \E i \in 1..Len(surv) :
                       /\ ret.people[k] = surv[i]
                       /\ \A j \in 1..Len(surv) :
                              same(j, surv[i]) =>
                                  /\ C2_Richness(surv[j]) <= C2_Richness(surv[i])
                                  /\ (C2_Richness(surv[j]) = C2_Richness(surv[i]) => i <= j)
            /\ \A a, b \in 1..2 :
                   ( /\ Len(args.all_people) = 2
                     /\ a # b
                     /\ scrape_norm(args.all_people[a].full_name)
                            = scrape_norm(args.all_people[b].full_name)
                     /\ C2_Rich(args.all_people[a])
                     /\ C2_Bare(args.all_people[b]) )
                   => ret.people = <<args.all_people[a]>>

\* a bare candidate came first and a rich one of the same name second, and
\* the rich one was kept
C2_Witness ==
    /\ pc = "resolved"
    /\ Len(args.all_people) = 2
    /\ C2_Bare(args.all_people[1])
    /\ C2_Rich(args.all_people[2])
    /\ ret.people = <<args.all_people[2]>>

\* two records of one name tie on richness, and the earlier one was kept
C2_TieWitness ==
    /\ pc = "resolved"
    /\ Len(ret.by_exact) = 2
    /\ scrape_norm(ret.by_exact[1].full_name) = scrape_norm(ret.by_exact[2].full_name)
    /\ _person_score(ret.by_exact[1]) = _person_score(ret.by_exact[2])
    /\ ret.people = <<ret.by_exact[1]>>


\* the grouping key as the claim states it: the three fields normalized
C11_NormKey(p) ==
    <<scrape_norm(p.full_name), scrape_norm(p.mcml_url), scrape_norm(p.role)>>

\* the grouping key with the fields lower-cased, a missing URL being empty
C11_LowerKey(p) ==
    <<StrLower(p.full_name), StrLower(OrEmpty(p.mcml_url)), StrLower(p.role)>>

\* the place of the last candidate of the group of candidate i, under Key
C11_LastOf(Key(_), i) ==
    LET people == args.all_people
        group == {j \in 1..Len(people) : Key(people[j]) = Key(people[i])}
    IN  CHOOSE j \in group : \A j2 \in group : j2 <= j

\* the survivors of the first pass are one per group under Key, each the
\* last-seen candidate of its group
C11_GroupedLastSeen(Key(_)) ==
    LET people == args.all_people
        surv == ret.by_exact
    IN  /\ Len(surv) = Cardinality({Key(people[i]) : i \in 1..Len(people)})
        /\ \A s1, s2 \in 1..Len(surv) : Key(surv[s1]) = Key(surv[s2]) => s1 = s2
        /\ \A i \in 1..Len(people) :
               \E s \in 1..Len(surv) :
                   /\ Key(surv[s]) = Key(people[i])
                   /\ surv[s] = people[C11_LastOf(Key, i)]

-----------------------------------------------------------------------------
(* Querying stored records.                                                *)

MaxRows == 3
MaxLimit == 2

\* rows as fetch_all returns them: the records an export stored
StoredRows ==
    { Person(Cand(<<"A", "n", "n", "a", " ", "S", "m", "i", "t", "h">>, <<"D", "i", "r", "e", "c", "t", "o", "r">>, <<"G">>, InternalUrl), TEAM_ROOT),
      Person(Cand(<<"B", "o", "b", " ", "S", "m", "i", "t", "h">>, <<"M", "e", "m", "b", "e", "r">>, <<>>, <<>>), TEAM_ROOT),
      Person(Cand(<<"J", "o", "h", "n", " ", "D", "o", "e">>, <<"M", "e", "m", "b", "e", "r">>, <<>>, <<>>), TEAM_ROOT),
      Person(Cand(<<"J", "o", "n", " ", "D", "o", "e">>, <<"D", "i", "r", "e", "c", "t", "o", "r">>, <<>>, <<>>), TEAM_ROOT),
      Person(Cand(<<"A", "n", "a", " ", "Eacute">>, <<"M", "e", "m", "b", "e", "r">>, <<>>, <<>>), TEAM_ROOT) }

RowLists ==
    UNION { { rs \in [1..n -> StoredRows] :
                \A i, j \in 1..n : rs[i] = rs[j] => i = j } : n \in 0..MaxRows }

Query(q, f, l) == [query |-> q, first |-> f, last |-> l]

Queries ==
    { Query(None, None, None),
      Query(<<" ">>, <<>>, <<>>),
      Query(None, <<" ">>, None),
      Query(<<"-">>, None, None),
      Query(<<"A", "n", "a", " ", "S", "m", "i", "t", "h">>, <<"A", "n", "a">>, <<"S", "m", "i", "t", "h">>),
      Query(<<"S", "m", "i", "t", "h">>, None, <<"S", "m", "i", "t", "h">>),
      Query(<<"J", "o", "h", "n", " ", "D", "o", "e">>, None, None),
      Query(<<"d", "o", "e">>, None, None),
      Query(<<"A", "n", "n">>, <<"A", "n", "n">>, None),
      Query(<<"Eacute">>, None, <<"Eacute">>) }

Thresholds == {Zero, Frac(11, 20), One}

MatchInit ==
    /\ pc = "call"
    /\ args \in [q : Queries, rows : RowLists, limit : 1..MaxLimit,
                 threshold : Thresholds]
    /\ ret = NoRet
    /\ NoExport

CallFindBestMatches ==
    /\ pc = "call"
    /\ pc' = "matched"
    /\ ret' = [scored |-> scores_assigned(args.q.query, args.rows,
                                          args.q.first, args.q.last),
               matches |-> find_best_matches(args.q.query, args.rows,
                                             args.q.first, args.q.last,
                                             args.limit, args.threshold)]
    /\ UNCHANGED <<args, db, run, persisted>>

MatchNext == CallFindBestMatches

SpecMatch == MatchInit /\ [][MatchNext]_vars

\* the rows that were scored at or above the threshold
C3_Kept == {i \in 1..Len(ret.scored) : FLe(args.threshold, ret.scored[i])}

\* the place of kept row i in the descending order that keeps the input
\* order of equal scores
C3_Rank(i) ==
    1 + Cardinality({j \in C3_Kept :
                        \/ FLt(ret.scored[i], ret.scored[j])
                        \/ (ret.scored[j] = ret.scored[i] /\ j < i)})

\* C3: find_best_matches returns the first `limit` elements of the stable
\* descending-by-score ordering of the rows it scored at or above the
\* threshold: a score equal to the threshold is in, a lower one is out, the
\* best comes first, equal scores keep their input order, and at most `limit`
\* results are returned.
C3_ThresholdSortLimit ==
    pc = "matched" =>
        LET n == IF args.limit < Cardinality(C3_Kept)
                 THEN args.limit ELSE Cardinality(C3_Kept)
        IN  /\ Len(ret.matches) = n
            /\ Len(ret.matches) <= args.limit
            /\ \A p \in 1..n :
                   \E i \in C3_Kept :
                       /\ C3_Rank(i) = p
                       /\ ret.matches[p] = Match(ret.scored[i], args.rows[i])

\* three rows were scored: two tie at the threshold (1.0) and are returned in
\* their input order, up to the limit, and the third is below it and dropped
C3_Witness ==
    /\ pc = "matched"
    /\ Len(args.rows) = 3
    /\ args.limit = 2
    /\ args.threshold = One
    /\ Len(ret.scored) = 3
    /\ ret.scored[1] # One
    /\ ret.scored[2] = One
    /\ ret.scored[3] = One
    /\ ret.matches = <<Match(One, args.rows[2]), Match(One, args.rows[3])>>

\* the parts of the score, as the claim names them
C4_Parts(r) ==
    LET fq == first_query(args.q.query, args.q.first)
        lq == last_query(args.q.query, args.q.last)
        q == stripped_query(args.q.query)
        fs == IF fq = <<>> THEN Zero ELSE similarity(fq, r.first_name)
        ls == IF lq = <<>> THEN Zero ELSE similarity(lq, r.last_name)
    IN  [fq |-> fq, lq |-> lq,
         full_name_score |-> IF q = <<>> THEN Zero ELSE similarity(q, r.full_name),
         first_score |-> fs,
         last_score |-> ls,
         combined_score |->
             IF fq # <<>> /\ lq # <<>>
             THEN FAdd(FMul(fs, Frac(4, 10)), FMul(ls, Frac(6, 10)))
             ELSE IF fq # <<>> THEN fs
             ELSE IF lq # <<>> THEN ls
             ELSE Zero]

C4_Max(p) ==
    FMax(FMax(p.full_name_score, p.first_score),
         FMax(p.last_score, p.combined_score))

\* the boost as the claim states it
C4_BoostAsStated(r) ==
    LET p == C4_Parts(r)
    IN  FAdd(IF p.lq # <<>> /\ match_norm(p.lq) = match_norm(r.last_name)
             THEN Frac(15, 100) ELSE Zero,
             IF p.fq # <<>> /\ match_norm(p.fq) = match_norm(r.first_name)
             THEN Frac(5, 100) ELSE Zero)

\* the boost, given only for a record name that is not empty once normalized
C4_BoostAmended(r) ==
    LET p == C4_Parts(r)
    IN  FAdd(IF /\ p.lq # <<>>
                /\ match_norm(r.last_name) # <<>>
                /\ match_norm(p.lq) = match_norm(r.last_name)
             THEN Frac(15, 100) ELSE Zero,
             IF /\ p.fq # <<>>
                /\ match_norm(r.first_name) # <<>>
                /\ match_norm(p.fq) = match_norm(r.first_name)
             THEN Frac(5, 100) ELSE Zero)

C4_IsExample(r) ==
    /\ args.q.first = <<"A", "n", "a">>
    /\ args.q.last = <<"S", "m", "i", "t", "h">>
    /\ r.first_name = <<"A", "n", "n", "a">>
    /\ r.last_name = <<"S", "m", "i", "t", "h">>

\* C4 as stated: every score is min(1.0, max(full_name_score, first_score,
\* last_score, combined_score) + boost), with +0.15 when effective-last is
\* non-empty and its normalized form equals the record's normalized last
\* name and +0.05 likewise for the first name.
C4_ScoreAsStated ==
    pc = "matched" =>
        \A i \in 1..Len(ret.scored) :
            ret.scored[i]
                = FMin(One, FAdd(C4_Max(C4_Parts(args.rows[i])),
                                 C4_BoostAsStated(args.rows[i])))

\* C4, amended: every score is min(1.0, max(full_name_score, first_score,
\* last_score, combined_score) + boost), where the +0.15 (+0.05) is given
\* when effective-last (effective-first) is non-empty, the record's
\* normalized last (first) name is non-empty and the two normalized forms
\* are equal; every score lies in [0, 1], and first='Ana', last='Smith'
\* scores 1.0 against first_name='Anna', last_name='Smith'.
C4_ScoreAmended ==
    pc = "matched" =>
        \A i \in 1..Len(ret.scored) :
            /\ ret.scored[i]
                   = FMin(One, FAdd(C4_Max(C4_Parts(args.rows[i])),
                                    C4_BoostAmended(args.rows[i])))
            /\ FLe(Zero, ret.scored[i]) /\ FLe(ret.scored[i], One)
            /\ C4_IsExample(args.rows[i]) => ret.scored[i] = One

\* the example query was scored against the example record and another one,
\* whose score is strictly between 0 and 1
C4_Witness ==
    /\ pc = "matched"
    /\ Len(args.rows) = 2
    /\ C4_IsExample(args.rows[1])
    /\ ret.scored[1] = One
    /\ C4_BoostAmended(args.rows[1]) = Frac(15, 100)
    /\ ret.scored[2] # Zero /\ ret.scored[2] # One

\* query_text, first and last yield no text
C5_NoText ==
    /\ Strip(OrEmpty(args.q.query)) = <<>>
    /\ ~Truthy(args.q.first)
    /\ ~Truthy(args.q.last)

\* C5: when neither query_text, first nor last yields any non-empty text,
\* find_best_matches returns an empty sequence, whatever the rows, the limit
\* and the threshold.
C5_EmptyInputEmptyResult ==
    (pc = "matched" /\ C5_NoText) => ret.matches = <<>>

\* a whitespace-only query without first and last was matched against stored
\* rows with threshold 0, which every row would pass, and nothing came back
C5_Witness ==
    /\ pc = "matched"
    /\ args.q = Query(<<" ">>, <<>>, <<>>)
    /\ Len(args.rows) = 2
    /\ args.threshold = Zero
    /\ ret.matches = <<>>

-----------------------------------------------------------------------------
(* Extracting the candidates of one page.                                  *)

MaxDocLen == 5

El(n, t, h) == [name |-> n, text |-> t, href |-> h]

Elements ==
    { El("h2", <<"P", "o", "s", "t", "d", "o", "c", "s">>, <<>>),
      El("h3", <<"A", "n", "a", " ", "L", "i">>, <<>>),
      El("h3", <<"B", "o", " ", "X", "u">>, <<>>),
      El("p", <<"D", "i", "r", "e", "c", "t", "o", "r">>, <<>>),
      El("p", <<"M", "u", "n", "i", "c", "h">>, <<>>),
      El("a", <<"H", "o", "m", "e">>, <<"/">>),
      El("a", <<"arrow", " ", "F", "o", "o">>, <<"/", "g">>) }

Pages == UNION { [1..n -> Elements] : n \in 0..MaxDocLen }

ExtractInit ==
    /\ pc = "call"
    /\ args \in [html : Pages]
    /\ ret = NoRet
    /\ NoExport

CallExtract ==
    /\ pc = "call"
    /\ pc' = "extracted"
    /\ ret' = [found |-> found_candidates(args.html),
               cands |-> _extract_candidates_from_page(args.html)]
    /\ UNCHANGED <<args, db, run, persisted>>

ExtractNext == CallExtract

SpecExtract == ExtractInit /\ [][ExtractNext]_vars

HeadingTags == {"h1", "h2", "h3", "h4", "h5"}

C8_NameHeading(e) == e.name \in HeadingTags /\ _looks_like_name(e.text)

C8_ShortLine(e) ==
    e.name \in TextTags /\ e.text # <<>> /\ ~_looks_like_name(e.text)

\* place n holds the next name-like heading after the name element at place
\* i, and only short descriptive lines, at least one, lie between the two
C8_NextPersonAt(i, n) ==
    /\ i < n /\ n <= Len(args.html)
    /\ C8_NameHeading(args.html[n])
    /\ n > i + 1
    /\ \A k \in (i + 1)..(n - 1) : C8_ShortLine(args.html[k])

\* the section name in force at place i
C8_SectionAt(i) ==
    LET hs == {k \in 1..(i - 1) : args.html[k].name = "h2"}
    IN  IF hs = {} THEN <<>>
        ELSE args.html[CHOOSE k \in hs : \A k2 \in hs : k2 <= k].text

\* C8: for a name element followed by short descriptive lines and then
\* another name-like heading, nothing at or after that heading is attributed
\* to the first person: its candidate (role, note, profile URL) is the one
\* extracted from the page cut off just before the heading.
C8_NoBleedOver ==
    pc = "extracted" =>
        \A f \in 1..Len(ret.found) :
            \A n \in 1..Len(args.html) :
                C8_NextPersonAt(ret.found[f].at, n) =>
                    ret.found[f].cand
                        = candidate_at(SubSeq(args.html, 1, n - 1),
                                       ret.found[f].at,
                                       C8_SectionAt(ret.found[f].at))


-----------------------------------------------------------------------------
(* The export run: discover the team pages, fetch and extract every page,  *)
(* resolve the candidates, replace the people table.                       *)

SEED_PAGES ==
    << TEAM_ROOT,
       BASE \o <<"/", "t", "e", "a", "m", "/", "d", "i", "r", "e", "c", "t", "o", "r", "s", "/">>,
       BASE \o <<"/", "t", "e", "a", "m", "/", "m", "a", "n", "a", "g", "e", "m", "e", "n", "t", "/">>,
       BASE \o <<"/", "t", "e", "a", "m", "/", "r", "e", "s", "e", "a", "r", "c", "h", "g", "r", "o", "u", "p", "s", "/">>,
       BASE \o <<"/", "t", "e", "a", "m", "/", "j", "r", "g", "s", "/">>,
       BASE \o <<"/", "t", "e", "a", "m", "/", "j", "u", "n", "i", "o", "r", "s", "/">>,
       BASE \o <<"/", "t", "e", "a", "m", "/", "t", "b", "f", "s", "/">>,
       BASE \o <<"/", "t", "e", "a", "m", "/", "s", "t", "r", "a", "t", "e", "g", "y", "b", "o", "a", "r", "d", "/">>,
       BASE \o <<"/", "t", "e", "a", "m", "/", "a", "d", "v", "i", "s", "o", "r", "y", "b", "o", "a", "r", "d", "/">>,
       BASE \o <<"/", "t", "e", "a", "m", "/", "f", "o", "r", "m", "e", "r", "/">> >>

\* _dedupe_preserve: the first occurrence of every non-empty url, in order
RECURSIVE _dedupe_preserve(_)
_dedupe_preserve(urls) ==
    IF urls = <<>> THEN <<>>
    ELSE LET out == _dedupe_preserve(SubSeq(urls, 1, Len(urls) - 1))
             u == urls[Len(urls)]
         IN  IF u = <<>> \/ \E j \in 1..Len(out) : out[j] = u
             THEN out
             ELSE Append(out, u)

\* s.split(c, 1)[0]
RECURSIVE BeforeFirst(_, _)
BeforeFirst(s, c) ==
    IF s = <<>> \/ Head(s) = c THEN <<>>
    ELSE <<Head(s)>> \o BeforeFirst(Tail(s), c)

\* s.rstrip("/")
RECURSIVE RStripSlash(_)
RStripSlash(s) ==
    IF s # <<>> /\ s[Len(s)] = "/"
    THEN RStripSlash(SubSeq(s, 1, Len(s) - 1))
    ELSE s

\* the loop of _discover_team_pages over the links of the root document
RECURSIVE team_links(_)
team_links(html) ==
    IF html = <<>> THEN <<>>
    ELSE LET a == Head(html)
             href == Strip(a.href)
             abs_url == _abs_url(href)
             skipped ==
                 \/ a.name # "a"
                 \/ href = <<>>
                 \/ StartsWith(href, <<"#">>)
                 \/ StartsWith(StrLower(href), <<"m", "a", "i", "l", "t", "o", ":">>)
                 \/ ~StartsWith(abs_url, TEAM_ROOT)
             url == RStripSlash(BeforeFirst(BeforeFirst(abs_url, "#"), "?"))
                        \o <<"/">>
         IN  (IF skipped THEN <<>> ELSE <<url>>) \o team_links(Tail(html))

\* _discover_team_pages, given how its fetch of the root document ended
_discover_team_pages(fetched) ==
    IF ~fetched.ok THEN <<>>
    ELSE _dedupe_preserve(team_links(fetched.html) \o SEED_PAGES)

\* scrape_all: the pages to scan (export calls scrape_all without seed pages)
pages_to_scan(discovered) ==
    LET base_pages == SEED_PAGES
        pages == _dedupe_preserve(base_pages \o discovered)
    IN  IF pages = <<>> THEN SEED_PAGES ELSE pages

\* scrape_all: the people one fetched page adds to all_people
people_on_page(html, page) ==
    LET cands == _extract_candidates_from_page(html)
    IN  [i \in 1..Len(cands) |-> Person(cands[i], page)]

\* db.replace_all_people: the rows built from people, all stamped with now
people_rows(people, now) ==
    [i \in 1..Len(people) |->
        [full_name |-> people[i].full_name,
         first_name |-> people[i].first_name,
         last_name |-> people[i].last_name,
         role |-> people[i].role,
         note |-> people[i].note,
         mcml_url |-> people[i].mcml_url,
         source_page |-> people[i].source_page,
         last_updated_utc |-> now]]

\* replace_all_people without its DELETE
replace_all_people_keeping_rows(con, people, now) ==
    con \o people_rows(people, now)

\* db.replace_all_people: DELETE FROM people, then one INSERT per row, then
\* the commit; the table con holds afterwards
replace_all_people(con, people, now) ==
    LET deleted == <<>>
    IN  deleted \o people_rows(people, now)

\* the web site as it stands during one export run
MaxRuns == 3
Sites == {1, 2}

NavPage ==
    << El("a", <<"J", "u", "n", "i", "o", "r", "s">>, <<"/", "t", "e", "a", "m", "/", "j", "u", "n", "i", "o", "r", "s", "/", "#", "t", "o", "p">>),
       El("a", <<"T", "o", "p">>, <<"#", "t", "o", "p">>),
       El("a", <<"M", "a", "i", "l">>, <<"M", "A", "I", "L", "T", "O", ":", "o", "f", "f", "i", "c", "e", "@", "m", "c", "m", "l", ".", "a", "i">>),
       El("a", <<"H", "o", "m", "e">>, <<"/">>),
       El("a", <<"A", "l", "u", "m", "n", "i">>, <<" ", "/", "t", "e", "a", "m", "/", "a", "l", "u", "m", "n", "i", "?", "y", "e", "a", "r", "=", "1", " ">>) >>

SiteDocument(site, url) ==
    IF site = 1 THEN
        IF url = TEAM_ROOT THEN NavPage
        ELSE IF url = BASE \o <<"/", "t", "e", "a", "m", "/", "d", "i", "r", "e", "c", "t", "o", "r", "s", "/">>
        THEN << El("h3", <<"A", "n", "a", " ", "L", "i">>, <<>>), El("p", <<"D", "i", "r", "e", "c", "t", "o", "r">>, <<>>) >>
        ELSE IF url = BASE \o <<"/", "t", "e", "a", "m", "/", "a", "l", "u", "m", "n", "i", "/">>
        THEN << El("h3", <<"B", "o", " ", "X", "u">>, <<>>) >>
        ELSE <<>>
    ELSE
        IF url = BASE \o <<"/", "t", "e", "a", "m", "/", "d", "i", "r", "e", "c", "t", "o", "r", "s", "/">>
        THEN << El("h3", <<"A", "n", "a", " ", "L", "i">>, <<>>) >>
        ELSE IF url = BASE \o <<"/", "t", "e", "a", "m", "/", "m", "a", "n", "a", "g", "e", "m", "e", "n", "t", "/">>
        THEN << El("h3", <<"A", "n", "a", " ", "L", "i">>, <<>>), El("a", <<"arrow", " ", "F", "o", "o">>, <<"/", "g">>) >>
        ELSE IF url = BASE \o <<"/", "t", "e", "a", "m", "/", "j", "u", "n", "i", "o", "r", "s", "/">>
        THEN << El("h2", <<"P", "o", "s", "t", "d", "o", "c", "s">>, <<>>), El("h3", <<"C", "y", " ", "P", "o">>, <<>>) >>
        ELSE <<>>

\* fetch_html: the ways a fetch of url can end, the document or an exception
fetch_html(site, url) ==
    { [ok |-> TRUE, html |-> SiteDocument(site, url)],
      [ok |-> FALSE, html |-> <<>>] }

ExportInit ==
    /\ pc = "shell"
    /\ args = [command |-> "export"]
    /\ ret = NoRet
    /\ NoExport

\* cli.export starts: connect and init_db leave the rows as they are
StartExport ==
    /\ pc \in {"shell", "stored", "aborted"}
    /\ run.number < MaxRuns
    /\ \E site \in Sites :
           run' = [NoRun EXCEPT !.number = run.number + 1, !.site = site]
    /\ pc' = "discover"
    /\ ret' = NoRet
    /\ UNCHANGED <<args, db, persisted>>

\* scrape_all: discovered = _discover_team_pages(), then the page list
Discover ==
    /\ pc = "discover"
    /\ \E fetched \in fetch_html(run.site, TEAM_ROOT) :
           LET discovered == _discover_team_pages(fetched)
           IN  run' = [run EXCEPT !.discovery_failed = ~fetched.ok,
                                  !.discovered = discovered,
                                  !.pages = pages_to_scan(discovered),
                                  !.ix = 1]
    /\ pc' = "scan"
    /\ UNCHANGED <<args, ret, db, persisted>>

\* scrape_all: one turn of the page loop; an exception of fetch_html is not
\* caught and ends the command
ScanPage ==
    /\ pc = "scan"
    /\ run.ix <= Len(run.pages)
    /\ LET page == run.pages[run.ix]
       IN  \E fetched \in fetch_html(run.site, page) :
               IF fetched.ok
               THEN /\ run' = [run EXCEPT
                                  !.all_people =
                                      @ \o people_on_page(fetched.html, page),
                                  !.ix = @ + 1]
                    /\ pc' = "scan"
               ELSE /\ run' = [run EXCEPT !.failed_url = page]
                    /\ pc' = "aborted"
    /\ UNCHANGED <<args, ret, db, persisted>>

\* scrape_all: after the last page, the two passes and the return
ReturnPeople ==
    /\ pc = "scan"
    /\ run.ix > Len(run.pages)
    /\ run' = [run EXCEPT !.people = Resolve(run.all_people)]
    /\ pc' = "persist"
    /\ UNCHANGED <<args, ret, db, persisted>>

\* cli.export: n = replace_all_people(con, people); the clock is the run number
ReplaceAllPeople ==
    /\ pc = "persist"
    /\ db' = replace_all_people(db, run.people, run.number)
    /\ ret' = Len(people_rows(run.people, run.number))
    /\ persisted' = [people |-> run.people, now |-> run.number, replaced |-> db]
    /\ pc' = "stored"
    /\ UNCHANGED <<args, run>>

ExportNext ==
    \/ StartExport
    \/ Discover
    \/ ScanPage
    \/ ReturnPeople
    \/ ReplaceAllPeople

SpecExport == ExportInit /\ [][ExportNext]_vars

\* the persons held in the rows of a table, without the time stamp
PeopleOf(table) ==
    [i \in 1..Len(table) |->
        [full_name |-> table[i].full_name,
         first_name |-> table[i].first_name,
         last_name |-> table[i].last_name,
         role |-> table[i].role,
         note |-> table[i].note,
         mcml_url |-> table[i].mcml_url,
         source_page |-> table[i].source_page]]

\* C9: the table holds exactly the full resolver output of the most recent
\* run that reached the replacement, stamped by that run: no row of an
\* earlier run remains and none of that run is missing; the replacement
\* returns the number of rows inserted.
C9_TableIsLatestOutput ==
    /\ PeopleOf(db) = persisted.people
    /\ \A i \in 1..Len(db) : db[i].last_updated_utc = persisted.now
    /\ pc = "stored" =>
           /\ persisted.people = Resolve(run.all_people)
           /\ persisted.now = run.number
           /\ ret = Len(db)

\* a run was aborted after two runs had replaced the table, the second of
\* which dropped a person the first had stored
C9_Witness ==
    /\ pc = "aborted"
    /\ persisted.now = 2
    /\ db # <<>>
    /\ \E i \in 1..Len(persisted.replaced) :
           \A j \in 1..Len(db) :
               db[j].full_name # persisted.replaced[i].full_name

\* C10: when the root document cannot be fetched, discovery yields no
\* pages, the run scans the seed pages alone, and the run does not fail on
\* account of the root document.
C10_RootFailureNotFatal ==
    run.discovery_failed =>
        /\ run.discovered = <<>>
        /\ run.pages = SEED_PAGES
        /\ ~(pc = "aborted" /\ run.failed_url = TEAM_ROOT)

=============================================================================
